---- MODULE Spec2Model ----
(***************************************************************************)
(* Model of the calculator component of calulator-tsx/src/App.tsx: the     *)
(* input state machine (handleNumber, handleDecimal, handleOperator,       *)
(* handleClear, handleEquals) and the evaluation pipeline                  *)
(* (evaluateExpression: tokenizer, shunting-yard, RPN evaluation;          *)
(* formatNumber).                                                          *)
(*                                                                         *)
(* Strings are sequences of one-character strings.  Numbers are IEEE       *)
(* doubles in the source; here a finite number is a sign and an exact      *)
(* fraction n/d, and NaN and the infinities are separate kinds.            *)
(***************************************************************************)
EXTENDS Integers, Sequences, FiniteSets, TLC

(* ------------------------------ bounds --------------------------------- *)

\* longest expression with an operator that the handlers are allowed to build
MaxLen == 6

\* longest expression without an operator (a single number literal)
MaxLiteral == 9

\* most evaluations between two Clear events
MaxEvals == 2

\* largest numerator or denominator the exact arithmetic may produce;
\* an evaluation that needs more is left out of the model
MaxNum == 100000000

(* ------------------------------ alphabet ------------------------------- *)

\* the digit buttons pressed in the model (a subset of "0".."9")
Digits == {"0", "1"}

AllDigits == {"0", "1", "2", "3", "4", "5", "6", "7", "8", "9"}

Operators == {"+", "-", "*", "/"}

isOperator(ch) == ch \in Operators

ErrorText == <<"E", "r", "r", "o", "r">>

DigitVal(ch) ==
  CASE ch = "0" -> 0 [] ch = "1" -> 1 [] ch = "2" -> 2 [] ch = "3" -> 3
    [] ch = "4" -> 4 [] ch = "5" -> 5 [] ch = "6" -> 6 [] ch = "7" -> 7
    [] ch = "8" -> 8 [] ch = "9" -> 9

DigitChar(n) ==
  CASE n = 0 -> "0" [] n = 1 -> "1" [] n = 2 -> "2" [] n = 3 -> "3"
    [] n = 4 -> "4" [] n = 5 -> "5" [] n = 6 -> "6" [] n = 7 -> "7"
    [] n = 8 -> "8" [] n = 9 -> "9"

(* --------------------------- string helpers ---------------------------- *)

LastChar(s) == s[Len(s)]

\* s.slice(0, -1)
DropLast(s) == SubSeq(s, 1, Len(s) - 1)

\* the trailing operators left in place
KeepTrailingOps(s) == s

\* while (base.length && isOperator(base[base.length - 1])) base = base.slice(0, -1)
RECURSIVE StripTrailingOps(_)
StripTrailingOps(s) ==
  IF Len(s) > 0 /\ isOperator(LastChar(s))
  THEN StripTrailingOps(DropLast(s))
  ELSE s

\* let i = expr.length - 1; while (i >= 0 && !isOperator(expr[i])) i--;
\* the result is i + 1 in 1-based indexing, i.e. the index of the last
\* operator character, or 0
RECURSIVE LastOpIndex(_, _)
LastOpIndex(s, i) ==
  IF i >= 1 /\ ~isOperator(s[i]) THEN LastOpIndex(s, i - 1) ELSE i

\* expr.substring(i + 1)
CurrentNumber(s) == SubSeq(s, LastOpIndex(s, Len(s)) + 1, Len(s))

\* expr.slice(0, i + 1)
BeforeCurrent(s) == SubSeq(s, 1, LastOpIndex(s, Len(s)))

Includes(s, ch) == \E i \in 1..Len(s) : s[i] = ch

(* ------------------------------ numbers -------------------------------- *)
(* A value of the TypeScript type number.  k = "num": the finite number    *)
(* s * n / d (s is the sign, so that -0 is s = -1, n = 0); k = "inf": the  *)
(* infinity of sign s; k = "nan": NaN; k = "oor": a finite number whose    *)
(* exact fraction does not fit MaxNum (outside the model).                 *)

NaN == [k |-> "nan", s |-> 1, n |-> 0, d |-> 1]

Infinity(sg) == [k |-> "inf", s |-> sg, n |-> 0, d |-> 1]

OutOfRange == [k |-> "oor", s |-> 1, n |-> 0, d |-> 1]

RECURSIVE GCD(_, _)
GCD(a, b) == IF b = 0 THEN a ELSE GCD(b, a % b)

\* a * b can be computed without leaving the model's integers
MulFits(a, b) == a = 0 \/ b <= MaxNum \div a

\* the finite number sg * nn / dd in lowest terms
Finite(sg, nn, dd) ==
  LET g == GCD(nn, dd)
  IN  [k |-> "num", s |-> sg, n |-> nn \div g, d |-> dd \div g]

Negate(a) == [a EXCEPT !.s = -a.s]

\* a + b on doubles
NumAdd(a, b) ==
  IF a.k = "nan" \/ b.k = "nan" THEN NaN
  ELSE IF a.k = "oor" \/ b.k = "oor" THEN OutOfRange
  ELSE IF a.k = "inf" /\ b.k = "inf" THEN (IF a.s = b.s THEN a ELSE NaN)
  ELSE IF a.k = "inf" THEN a
  ELSE IF b.k = "inf" THEN b
  ELSE IF ~(MulFits(a.n, b.d) /\ MulFits(b.n, a.d) /\ MulFits(a.d, b.d))
       THEN OutOfRange
  ELSE LET sum == a.s * a.n * b.d + b.s * b.n * a.d
           den == a.d * b.d
       IN  IF sum = 0
           THEN Finite(IF a.n = 0 /\ b.n = 0 /\ a.s = -1 /\ b.s = -1
                       THEN -1 ELSE 1, 0, 1)
           ELSE IF sum > MaxNum \/ -sum > MaxNum THEN OutOfRange
           ELSE IF sum > 0 THEN Finite(1, sum, den)
           ELSE Finite(-1, -sum, den)

\* a - b on doubles
NumSub(a, b) == NumAdd(a, Negate(b))

\* a * b on doubles
NumMul(a, b) ==
  IF a.k = "nan" \/ b.k = "nan" THEN NaN
  ELSE IF a.k = "oor" \/ b.k = "oor" THEN OutOfRange
  ELSE IF a.k = "inf" \/ b.k = "inf"
       THEN (IF (a.k = "num" /\ a.n = 0) \/ (b.k = "num" /\ b.n = 0)
             THEN NaN ELSE Infinity(a.s * b.s))
  ELSE IF ~(MulFits(a.n, b.n) /\ MulFits(a.d, b.d)) THEN OutOfRange
  ELSE Finite(a.s * b.s, a.n * b.n, a.d * b.d)

\* a / b on doubles
NumDiv(a, b) ==
  IF a.k = "nan" \/ b.k = "nan" THEN NaN
  ELSE IF a.k = "oor" \/ b.k = "oor" THEN OutOfRange
  ELSE IF a.k = "inf"
       THEN (IF b.k = "inf" THEN NaN ELSE Infinity(a.s * b.s))
  ELSE IF b.k = "inf" THEN Finite(a.s * b.s, 0, 1)
  ELSE IF b.n = 0
       THEN (IF a.n = 0 THEN NaN ELSE Infinity(a.s * b.s))
  ELSE IF ~(MulFits(a.n, b.d) /\ MulFits(a.d, b.n)) THEN OutOfRange
  ELSE Finite(a.s * b.s, a.n * b.d, a.d * b.n)

isNaN(v) == v.k = "nan"

isFinite(v) == v.k = "num"

(* ---------------------------- parseFloat ------------------------------- *)
(* parseFloat(token) for the strings the tokenizer produces: an optional   *)
(* '-', digits, an optional '.', digits.  It reads the longest prefix of   *)
(* that shape and yields NaN when the prefix holds no digit.               *)

RECURSIVE ParseFrom(_, _, _, _, _, _, _)
ParseFrom(s, i, sg, nn, dd, inFrac, any) ==
  IF i <= Len(s) /\ s[i] \in AllDigits
  THEN IF nn > (MaxNum - 9) \div 10 \/ (inFrac /\ dd > MaxNum \div 10)
       THEN OutOfRange
       ELSE ParseFrom(s, i + 1, sg, nn * 10 + DigitVal(s[i]),
                      IF inFrac THEN dd * 10 ELSE dd, inFrac, TRUE)
  ELSE IF i <= Len(s) /\ s[i] = "." /\ ~inFrac
  THEN ParseFrom(s, i + 1, sg, nn, dd, TRUE, any)
  ELSE IF any THEN Finite(sg, nn, dd) ELSE NaN

parseFloat(s) ==
  IF Len(s) > 0 /\ s[1] = "-"
  THEN ParseFrom(s, 2, -1, 0, 1, FALSE, FALSE)
  ELSE ParseFrom(s, 1, 1, 0, 1, FALSE, FALSE)

(* ----------------------------- tokenizer ------------------------------- *)
(* A token is a string: an operator token is a one-character string whose *)
(* character is an operator, any other token is a number literal.          *)

\* isOperator(t) applied to a token
isOperatorToken(t) == Len(t) = 1 /\ isOperator(t[1])

\* the unary test without its "previous token is an operator" half
UnaryOnlyAtStart(tokens) == Len(tokens) = 0

\* const prev = tokens.length ? tokens[tokens.length - 1] : null;
\* !prev || isOperator(prev)
UnaryPosition(tokens) ==
  Len(tokens) = 0 \/ isOperatorToken(tokens[Len(tokens)])

RECURSIVE TokenizeFrom(_, _, _, _)
TokenizeFrom(input, i, tokens, numBuf) ==
  IF i > Len(input)
  THEN IF numBuf # <<>> THEN Append(tokens, numBuf) ELSE tokens
  ELSE LET ch == input[i]
       IN  IF ch \in AllDigits \/ ch = "."
           THEN TokenizeFrom(input, i + 1, tokens, Append(numBuf, ch))
           ELSE IF isOperator(ch)
           THEN LET flushed == IF numBuf # <<>>
                               THEN Append(tokens, numBuf) ELSE tokens
                IN  IF ch = "-" /\ UnaryPosition(flushed)
                    THEN TokenizeFrom(input, i + 1, flushed, <<"-">>)
                    ELSE TokenizeFrom(input, i + 1,
                                      Append(flushed, <<ch>>), <<>>)
           ELSE TokenizeFrom(input, i + 1, tokens, numBuf)

tokenize(input) == TokenizeFrom(input, 1, <<>>, <<>>)

(* --------------------------- shunting-yard ----------------------------- *)

prec(op) == IF op \in {"*", "/"} THEN 2 ELSE 1

\* the comparison of precedences made strict: equal precedence no longer pops
PopsBeforeStrict(top, t) == isOperatorToken(top) /\ prec(top[1]) > prec(t[1])

\* opStack.length > 0 && isOperator(top) && prec[top] >= prec[t]
PopsBefore(top, t) == isOperatorToken(top) /\ prec(top[1]) >= prec(t[1])

\* the while loop that moves operators from opStack to outputQueue
RECURSIVE PopOperators(_, _, _)
PopOperators(outputQueue, opStack, t) ==
  IF Len(opStack) > 0 /\ PopsBefore(LastChar(opStack), t)
  THEN PopOperators(Append(outputQueue, LastChar(opStack)),
                    DropLast(opStack), t)
  ELSE [out |-> outputQueue, ops |-> opStack]

\* while (opStack.length) outputQueue.push(opStack.pop())
RECURSIVE DrainOperators(_, _)
DrainOperators(outputQueue, opStack) ==
  IF Len(opStack) > 0
  THEN DrainOperators(Append(outputQueue, LastChar(opStack)),
                      DropLast(opStack))
  ELSE outputQueue

RECURSIVE ToRPNFrom(_, _, _, _)
ToRPNFrom(tokens, i, outputQueue, opStack) ==
  IF i > Len(tokens) THEN DrainOperators(outputQueue, opStack)
  ELSE LET t == tokens[i]
       IN  IF isOperatorToken(t)
           THEN LET p == PopOperators(outputQueue, opStack, t)
                IN  ToRPNFrom(tokens, i + 1, p.out, Append(p.ops, t))
           ELSE ToRPNFrom(tokens, i + 1, Append(outputQueue, t), opStack)

toRPN(tokens) == ToRPNFrom(tokens, 1, <<>>, <<>>)

(* --------------------------- RPN evaluation ---------------------------- *)

\* the four assignments to res
ApplyOperator(op, a, b) ==
  CASE op = "+" -> NumAdd(a, b)
    [] op = "-" -> NumSub(a, b)
    [] op = "*" -> NumMul(a, b)
    [] op = "/" -> NumDiv(a, b)

RECURSIVE EvalRPNFrom(_, _, _)
EvalRPNFrom(queue, i, stack) ==
  IF i > Len(queue)
  THEN IF Len(stack) # 1 THEN NaN ELSE stack[1]
  ELSE LET token == queue[i]
       IN  IF isOperatorToken(token)
           THEN IF Len(stack) < 2 THEN NaN
                ELSE LET b == stack[Len(stack)]
                         a == stack[Len(stack) - 1]
                     IN  EvalRPNFrom(queue, i + 1,
                           Append(SubSeq(stack, 1, Len(stack) - 2),
                                  ApplyOperator(token[1], a, b)))
           ELSE EvalRPNFrom(queue, i + 1, Append(stack, parseFloat(token)))

evalRPN(queue) == EvalRPNFrom(queue, 1, <<>>)

evaluateExpression(input) == evalRPN(toRPN(tokenize(input)))

(* ---------------------------- formatNumber ----------------------------- *)
(* String(parseFloat(n.toFixed(10))) for a finite n.                       *)

\* number of fractional digits kept by toFixed
FractionDigits == 10

\* decimal digits of a natural number, as a string
RECURSIVE NatToString(_)
NatToString(m) ==
  IF m < 10 THEN <<DigitChar(m)>>
  ELSE Append(NatToString(m \div 10), DigitChar(m % 10))

\* the first cnt digits of r / dd after the decimal point (r < dd), and the
\* remainder left after them
RECURSIVE LongDivision(_, _, _, _)
LongDivision(r, dd, cnt, digits) ==
  IF cnt = 0 THEN [digits |-> digits, rem |-> r]
  ELSE LongDivision((r * 10) % dd, dd, cnt - 1,
                    Append(digits, (r * 10) \div dd))

\* add one unit in the last place of a digit sequence; carry is the
\* overflow into the integer part
RECURSIVE Increment(_, _)
Increment(digits, i) ==
  IF i = 0 THEN [digits |-> digits, carry |-> 1]
  ELSE IF digits[i] = 9
       THEN Increment([digits EXCEPT ![i] = 0], i - 1)
       ELSE [digits |-> [digits EXCEPT ![i] = digits[i] + 1], carry |-> 0]

\* toFixed picks the nearest value with FractionDigits digits, the larger
\* one of two equally near
RoundsUp(rem, dd) == 2 * rem >= dd

\* n.toFixed(10), as integer part and fractional digits of the magnitude
toFixed(v) ==
  LET ip == v.n \div v.d
      ld == LongDivision(v.n % v.d, v.d, FractionDigits, <<>>)
      up == IF RoundsUp(ld.rem, v.d)
            THEN Increment(ld.digits, FractionDigits)
            ELSE [digits |-> ld.digits, carry |-> 0]
  IN  [s |-> v.s, ip |-> ip + up.carry, frac |-> up.digits]

\* index of the last non-zero digit, 0 when there is none
RECURSIVE LastNonZero(_, _)
LastNonZero(digits, i) ==
  IF i >= 1 /\ digits[i] = 0 THEN LastNonZero(digits, i - 1) ELSE i

\* index of the first non-zero digit from i on
RECURSIVE FirstNonZero(_, _)
FirstNonZero(digits, i) ==
  IF i <= Len(digits) /\ digits[i] = 0
  THEN FirstNonZero(digits, i + 1) ELSE i

DigitsToString(digits) == [i \in 1..Len(digits) |-> DigitChar(digits[i])]

\* smallest exponent n for which Number::toString still writes plain
\* decimal notation: values below 10^-6 are written with an exponent
MinPlainExponent == 6

\* String(x) for the double x = parseFloat(fixed)
NumberToString(f) ==
  LET last  == LastNonZero(f.frac, Len(f.frac))
      first == FirstNonZero(f.frac, 1)
      sign  == IF f.s = -1 THEN <<"-">> ELSE <<>>
  IN  IF f.ip = 0 /\ last = 0 THEN <<"0">>
      ELSE IF f.ip > 0 \/ first <= MinPlainExponent
      THEN sign \o NatToString(f.ip) \o
           (IF last = 0 THEN <<>>
            ELSE <<".">> \o DigitsToString(SubSeq(f.frac, 1, last)))
      ELSE sign \o <<DigitChar(f.frac[first])>> \o
           (IF last = first THEN <<>>
            ELSE <<".">> \o DigitsToString(SubSeq(f.frac, first + 1, last)))
           \o <<"e", "-">> \o NatToString(first)

formatNumber(v) == NumberToString(toFixed(v))

(* ------------------------- component state ----------------------------- *)

VARIABLES
  display,      \* useState "display": what the user sees
  expr,         \* useState "expr": the internal expression string
  lastPressed,  \* useState "lastPressed": the last button pressed
  evaluated,    \* useState "evaluated": whether the last action was =
  event,        \* the input event handled last ("" before the first one)
  evaluations,  \* evaluations made since the component was mounted or cleared
  listener,     \* what the registered keydown handler closes over
  input,        \* the argument of a direct call of evaluateExpression
  result        \* what that call returned, <<>> before the call

vars == <<display, expr, lastPressed, evaluated, event, evaluations,
          listener, input, result>>

\* the four state cells as one record
State == [display |-> display, expr |-> expr,
          lastPressed |-> lastPressed, evaluated |-> evaluated]

InitialState == [display |-> <<"0">>, expr |-> <<>>,
                 lastPressed |-> "", evaluated |-> FALSE]

\* the values the handlers created by a render close over
Closure(st) == [display |-> st.display, expr |-> st.expr,
                evaluated |-> st.evaluated]

(* ------------------------------ handlers ------------------------------- *)
(* Each handler is the function from the state it runs in to the state     *)
(* after React has applied all of its setState calls.                      *)

\* the test for a lone zero that never finds one
NeverLoneZero(e) == FALSE

\* current === "0"
IsLoneZero(e) == CurrentNumber(e) = <<"0">>

\* the display replaced by the digit instead of extended by it
ShowDigitOnly(prev, digit) == <<digit>>

\* (prev) => (prev === "0" ? digit : prev + digit)
AppendToDisplay(prev, digit) ==
  IF prev = <<"0">> THEN <<digit>> ELSE Append(prev, digit)

handleNumber(st, digit) ==
  LET s1 == [st EXCEPT !.lastPressed = digit]
  IN
  IF st.evaluated
  THEN [s1 EXCEPT !.expr = IF digit = "0" THEN <<>> ELSE <<digit>>,
                  !.display = <<digit>>,
                  !.evaluated = FALSE]
  ELSE IF st.expr = <<>>
  THEN IF digit = "0"
       THEN IF st.display = <<"0">>
            THEN [s1 EXCEPT !.display = <<"0">>]
            ELSE [s1 EXCEPT !.expr = <<"0">>, !.display = <<"0">>]
       ELSE [s1 EXCEPT !.expr = <<digit>>, !.display = <<digit>>]
  ELSE IF isOperator(LastChar(st.expr))
  THEN [s1 EXCEPT !.expr = Append(st.expr, digit), !.display = <<digit>>]
  ELSE IF IsLoneZero(st.expr)
  THEN [s1 EXCEPT !.expr = Append(BeforeCurrent(st.expr), digit),
                  !.display = <<digit>>]
  ELSE [s1 EXCEPT !.expr = Append(st.expr, digit),
                  !.display = AppendToDisplay(st.display, digit)]

\* the current number never counts as holding a decimal point
NeverHasDecimal(e) == FALSE

\* current.includes(".")
HasDecimal(e) == Includes(CurrentNumber(e), ".")

handleDecimal(st) ==
  LET s1 == [st EXCEPT !.lastPressed = "."]
  IN
  IF st.evaluated
  THEN [s1 EXCEPT !.expr = <<"0", ".">>, !.display = <<"0", ".">>,
                  !.evaluated = FALSE]
  ELSE IF st.expr = <<>>
  THEN [s1 EXCEPT !.expr = <<"0", ".">>, !.display = <<"0", ".">>]
  ELSE IF HasDecimal(st.expr)
  THEN s1
  ELSE IF isOperator(LastChar(st.expr))
  THEN [s1 EXCEPT !.expr = st.expr \o <<"0", ".">>,
                  !.display = <<"0", ".">>]
  ELSE [s1 EXCEPT !.expr = Append(st.expr, "."),
                  !.display = Append(st.display, ".")]

\* the new operator appended without removing the trailing ones
AppendWithoutStrip(e, op) == Append(e, op)

\* only the last of the trailing operators removed
ReplaceLastOnly(e, op) == Append(DropLast(e), op)

\* the trailing operators removed and the new one not appended
StripWithoutAppend(e, op) == StripTrailingOps(e)

\* let base = expr; while (...) base = base.slice(0, -1); base + op
ReplaceTrailing(e, op) == Append(StripTrailingOps(e), op)

handleOperator(st, op) ==
  LET s1 == [st EXCEPT !.lastPressed = op]
  IN
  IF st.evaluated
  THEN [s1 EXCEPT !.expr = Append(st.display, op), !.evaluated = FALSE]
  ELSE IF st.expr = <<>>
  THEN IF op = "-"
       THEN [s1 EXCEPT !.expr = <<"-">>, !.display = <<"-">>]
       ELSE s1
  ELSE IF isOperator(LastChar(st.expr))
  THEN IF op = "-" /\ LastChar(st.expr) # "-"
       THEN [s1 EXCEPT !.expr = Append(st.expr, "-"), !.display = <<"-">>]
       ELSE [s1 EXCEPT !.expr = ReplaceTrailing(st.expr, op)]
  ELSE [s1 EXCEPT !.expr = Append(st.expr, op), !.display = <<op>>]

\* a Clear that forgets to reset "evaluated"
handleClearKeepsEvaluated(st) ==
  [InitialState EXCEPT !.evaluated = st.evaluated]

\* a Clear that forgets to reset "lastPressed"
handleClearKeepsLastPressed(st) ==
  [InitialState EXCEPT !.lastPressed = st.lastPressed]

handleClear(st) == InitialState

\* the failure test without its isFinite half
FailedOnlyIfNaN(res) == isNaN(res)

\* isNaN(result) || !isFinite(result)
EvaluationFailed(res) == isNaN(res) \/ ~isFinite(res)

\* an Equals that forgets setEvaluated(true)
handleEqualsForgetsEvaluated(st) ==
  LET safeExpr == StripTrailingOps(st.expr)
      res == evaluateExpression(safeExpr)
  IN  IF safeExpr = <<>> THEN st
      ELSE IF EvaluationFailed(res)
      THEN [st EXCEPT !.display = ErrorText, !.expr = <<>>]
      ELSE [st EXCEPT !.display = formatNumber(res),
                      !.expr = formatNumber(res)]

handleEquals(st) ==
  IF st.expr = <<>> THEN st
  ELSE LET safeExpr == StripTrailingOps(st.expr)
       IN  IF safeExpr = <<>> THEN st
           ELSE LET res == evaluateExpression(safeExpr)
                IN  IF EvaluationFailed(res)
                    THEN [st EXCEPT !.display = ErrorText,
                                    !.expr = <<>>,
                                    !.evaluated = TRUE]
                    ELSE LET out == formatNumber(res)
                         IN  [st EXCEPT !.display = out,
                                        !.expr = out,
                                        !.evaluated = TRUE]

(* --------------------- limits of the number model ---------------------- *)

\* decimal digits a double holds exactly
DoubleDigits == 15

\* the exact fraction v and its rendering stand for the double the code
\* computes: v fits MaxNum and its rendering has at most DoubleDigits digits
Representable(v) ==
  /\ v.k # "oor"
  /\ v.k = "num" =>
       LET f == toFixed(v)
       IN  Len(NatToString(f.ip)) + LastNonZero(f.frac, Len(f.frac))
             <= DoubleDigits

(* ------------------------------ actions -------------------------------- *)

Init ==
  /\ display = InitialState.display
  /\ expr = InitialState.expr
  /\ lastPressed = InitialState.lastPressed
  /\ evaluated = InitialState.evaluated
  /\ event = ""
  /\ evaluations = 0
  /\ listener = Closure(InitialState)
  /\ input = <<>>
  /\ result = <<>>

\* the expression e stays within the model's length bounds
WithinLength(e) ==
  \/ Len(e) <= MaxLen
  \/ Len(e) <= MaxLiteral /\ \A i \in 1..Len(e) : ~isOperator(e[i])

\* a dependency list that leaves expr out
DepsWithoutExpr(st) == <<st.display, st.evaluated>>

\* the dependencies of the keyboard effect: [expr, display, evaluated]
Deps(st) == <<st.expr, st.display, st.evaluated>>

\* the keyboard effect after the render of state new that follows the
\* render of state old: when a dependency changed, the listener lst is
\* removed and a handler closing over the new render is registered
useEffect(lst, old, new) ==
  IF Deps(old) # Deps(new) THEN Closure(new) ELSE lst

\* the effects of a commit have run when the next input event is handled:
\* one event is processed to completion before the next is accepted
FlushEffects(lst, old, new) == useEffect(lst, old, new)

\* React commits the handler's state updates
Commit(st, ev) ==
  /\ display' = st.display
  /\ expr' = st.expr
  /\ lastPressed' = st.lastPressed
  /\ evaluated' = st.evaluated
  /\ event' = ev
  /\ listener' = FlushEffects(listener, State, st)
  /\ UNCHANGED <<input, result>>

PressNumber(digit) ==
  LET st == handleNumber(State, digit)
  IN  /\ WithinLength(st.expr) \/ st.expr = expr
      /\ Commit(st, digit)
      /\ UNCHANGED evaluations

PressDecimal ==
  LET st == handleDecimal(State)
  IN  /\ WithinLength(st.expr) \/ st.expr = expr
      /\ Commit(st, ".")
      /\ UNCHANGED evaluations

PressOperator(op) ==
  LET st == handleOperator(State, op)
  IN  /\ WithinLength(st.expr) \/ st.expr = expr
      /\ Commit(st, op)
      /\ UNCHANGED evaluations

PressClear ==
  /\ Commit(handleClear(State), "AC")
  /\ evaluations' = 0

\* handleEquals returns early, before it evaluates anything
EqualsReturnsEarly(e) == StripTrailingOps(e) = <<>>

PressEquals ==
  IF EqualsReturnsEarly(expr)
  THEN /\ Commit(handleEquals(State), "=")
       /\ UNCHANGED evaluations
  ELSE /\ evaluations < MaxEvals
       /\ Representable(evaluateExpression(StripTrailingOps(expr)))
       /\ Commit(handleEquals(State), "=")
       /\ evaluations' = evaluations + 1

Next ==
  \/ \E digit \in Digits : PressNumber(digit)
  \/ PressDecimal
  \/ \E op \in Operators : PressOperator(op)
  \/ PressClear
  \/ PressEquals

Spec == Init /\ [][Next]_vars

(* ------------------------- keyboard events ----------------------------- *)
(* A keydown event runs the handler of the registered listener, which      *)
(* reads the expr, display and evaluated of the render it was created in.  *)

\* the state as the handlers of the registered listener see it
ListenerState == [display |-> listener.display, expr |-> listener.expr,
                  lastPressed |-> lastPressed,
                  evaluated |-> listener.evaluated]

KeyNumber(k) ==
  LET st == handleNumber(ListenerState, k)
  IN  /\ WithinLength(st.expr) \/ st.expr = expr
      /\ Commit(st, k)
      /\ UNCHANGED evaluations

KeyDecimal ==
  LET st == handleDecimal(ListenerState)
  IN  /\ WithinLength(st.expr) \/ st.expr = expr
      /\ Commit(st, ".")
      /\ UNCHANGED evaluations

KeyOperator(k) ==
  LET st == handleOperator(ListenerState, k)
  IN  /\ WithinLength(st.expr) \/ st.expr = expr
      /\ Commit(st, k)
      /\ UNCHANGED evaluations

\* Enter or =
KeyEquals ==
  IF EqualsReturnsEarly(listener.expr)
  THEN /\ Commit(handleEquals(ListenerState), "=")
       /\ UNCHANGED evaluations
  ELSE /\ evaluations < MaxEvals
       /\ Representable(evaluateExpression(StripTrailingOps(listener.expr)))
       /\ Commit(handleEquals(ListenerState), "=")
       /\ evaluations' = evaluations + 1

KeyEscape ==
  /\ Commit(handleClear(ListenerState), "AC")
  /\ evaluations' = 0

\* longest expression entered where keys and buttons are mixed
MaxKeyLen == 5

NextKeys ==
  /\ \/ \E k \in Digits : KeyNumber(k)
     \/ KeyDecimal
     \/ \E k \in Operators : KeyOperator(k)
     \/ KeyEquals
     \/ KeyEscape
     \/ Next
  /\ Len(expr') <= MaxKeyLen \/ event' = "="

\* buttons and keys, in any order
SpecKeys == Init /\ [][NextKeys]_vars

(* ------------- evaluateExpression called on its own -------------------- *)

\* longest argument
MaxInput == 5

\* characters of the arguments
InputChars == {"2", "3", "4", "5", "8", "+", "-", "*", "/"}

\* what handleEquals passes on: no trailing operator, and no '-' directly
\* before another operator
InputDomain(s) ==
  /\ Len(s) > 0
  /\ ~isOperator(LastChar(s))
  /\ \A i \in 1..(Len(s) - 1) : s[i] = "-" => ~isOperator(s[i + 1])

Inputs ==
  {s \in UNION {[1..len -> InputChars] : len \in 1..MaxInput} :
     InputDomain(s)}

InitEval ==
  /\ display = InitialState.display
  /\ expr = InitialState.expr
  /\ lastPressed = InitialState.lastPressed
  /\ evaluated = InitialState.evaluated
  /\ event = ""
  /\ evaluations = 0
  /\ listener = Closure(InitialState)
  /\ input \in Inputs
  /\ result = <<>>

Evaluate ==
  /\ result = <<>>
  /\ result' = <<evaluateExpression(input)>>
  /\ UNCHANGED <<display, expr, lastPressed, evaluated, event, evaluations,
               listener, input>>

NextEval == Evaluate

SpecEval == InitEval /\ [][NextEval]_vars

(* ======================================================================= *)
(*                               Properties                                *)
(* ======================================================================= *)

\* the state in which evaluateExpression has returned
Returned == result # <<>>

Value == result[1]

\* the integer m as a value of type number
Integer(m) == IF m < 0 THEN Finite(-1, -m, 1) ELSE Finite(1, m, 1)

(* ----- the standard value of a well-formed expression, read directly ---- *)
(* from the string: a sum of terms, split at its last + or -, each term a  *)
(* product split at its last * or /, each factor a run of digits.          *)

RECURSIVE NumeralValue(_)
NumeralValue(s) ==
  IF Len(s) = 0 THEN 0
  ELSE 10 * NumeralValue(DropLast(s)) + DigitVal(LastChar(s))

\* index of the last character of s that belongs to chars, 0 when none does
RECURSIVE LastIndexOf(_, _, _)
LastIndexOf(s, chars, i) ==
  IF i >= 1 /\ s[i] \notin chars THEN LastIndexOf(s, chars, i - 1) ELSE i

\* numerals separated by single binary operators
WellFormed(s) ==
  /\ Len(s) > 0
  /\ s[1] \in AllDigits
  /\ LastChar(s) \in AllDigits
  /\ \A i \in 1..Len(s) : s[i] \in AllDigits \/ isOperator(s[i])
  /\ \A i \in 1..(Len(s) - 1) : isOperator(s[i]) => s[i + 1] \in AllDigits

\* [ok |-> every division is exact and by a non-zero number, v |-> value]
RECURSIVE StandardTerm(_)
StandardTerm(s) ==
  LET i == LastIndexOf(s, {"*", "/"}, Len(s))
  IN  IF i = 0 THEN [ok |-> TRUE, v |-> NumeralValue(s)]
      ELSE LET l == StandardTerm(SubSeq(s, 1, i - 1))
               r == NumeralValue(SubSeq(s, i + 1, Len(s)))
           IN  IF s[i] = "*" THEN [ok |-> l.ok, v |-> l.v * r]
               ELSE IF r = 0 \/ ~l.ok THEN [ok |-> FALSE, v |-> 0]
               ELSE [ok |-> l.v % r = 0, v |-> l.v \div r]

RECURSIVE StandardValue(_)
StandardValue(s) ==
  LET i == LastIndexOf(s, {"+", "-"}, Len(s))
  IN  IF i = 0 THEN StandardTerm(s)
      ELSE LET l == StandardValue(SubSeq(s, 1, i - 1))
               r == StandardTerm(SubSeq(s, i + 1, Len(s)))
           IN  [ok |-> l.ok /\ r.ok,
                v  |-> IF s[i] = "+" THEN l.v + r.v ELSE l.v - r.v]

\* C1: for every well-formed expression (numerals separated by single
\* binary operators, every division exact and by a non-zero number)
\* evaluateExpression returns the value of the standard rules: * and / bind
\* tighter than + and -, operators of equal precedence apply left to right;
\* "3+4*2" gives 11 and "8-3-2" gives 3.
C1_StandardValue ==
  /\ (Returned /\ WellFormed(input) /\ StandardValue(input).ok)
       => Value = Integer(StandardValue(input).v)
  /\ (Returned /\ input = <<"3", "+", "4", "*", "2">>) => Value = Integer(11)
  /\ (Returned /\ input = <<"8", "-", "3", "-", "2">>) => Value = Integer(3)

C1_Witness ==
  /\ input = <<"8", "-", "3", "-", "2">>
  /\ WellFormed(input) /\ StandardValue(input).ok
  /\ Returned /\ Value = Integer(3)

(* ------------------------- C2: unary minus ----------------------------- *)

\* the tokens produced from the first i characters of s
TokensOf(s, i) == tokenize(SubSeq(s, 1, i))

\* the '-' at position i of s became the sign of the literal that follows
FoldedAsSign(s, i) ==
  LET after == TokensOf(s, i + 1)
  IN  /\ Len(after) = Len(TokensOf(s, i - 1)) + 1
      /\ after[Len(after)] = <<"-", s[i + 1]>>

\* the '-' at position i of s became an operator token of its own
EmittedAsOperator(s, i) ==
  LET after == TokensOf(s, i + 1)
  IN  /\ Len(after) = Len(TokensOf(s, i - 1)) + 2
      /\ after[Len(after) - 1] = <<"-">>
      /\ after[Len(after)] = <<s[i + 1]>>

\* no token has been produced before position i, or the most recently
\* produced one is an operator
NoTokenOrOperatorBefore(s, i) ==
  LET before == TokensOf(s, i - 1)
  IN  Len(before) = 0 \/ before[Len(before)] \in {<<"+">>, <<"-">>, <<"*">>, <<"/">>}

\* C2: the tokenizer folds a '-' into the following number literal as its
\* sign, and emits no operator token for it, exactly when no token has been
\* produced yet or the most recently produced token is an operator; in every
\* other position '-' is emitted as a binary operator token.  Consequently
\* "5*-3" evaluates to -15 and "-5+3" to -2.
C2_UnaryMinus ==
  /\ \A i \in 1..(Len(input) - 1) :
       input[i] = "-" =>
         IF NoTokenOrOperatorBefore(input, i)
         THEN FoldedAsSign(input, i) /\ ~EmittedAsOperator(input, i)
         ELSE EmittedAsOperator(input, i) /\ ~FoldedAsSign(input, i)
  /\ (Returned /\ input = <<"5", "*", "-", "3">>) => Value = Integer(-15)
  /\ (Returned /\ input = <<"-", "5", "+", "3">>) => Value = Integer(-2)

C2_Witness ==
  /\ input = <<"5", "*", "-", "3">>
  /\ FoldedAsSign(input, 3)
  /\ Returned /\ Value = Integer(-15)

(* ----------------- C3: the expression stays evaluable ------------------ *)

\* a number literal: not an operator token, and parseFloat reads a number
IsNumberToken(t) == t \notin {<<"+">>, <<"-">>, <<"*">>, <<"/">>} /\ ~isNaN(parseFloat(t))

IsOperatorSymbol(t) == t \in {<<"+">>, <<"-">>, <<"*">>, <<"/">>}

\* Number, Operator, Number, ..., Number
Alternating(tokens) ==
  /\ Len(tokens) % 2 = 1
  /\ \A i \in 1..Len(tokens) :
       IF i % 2 = 1 THEN IsNumberToken(tokens[i])
       ELSE IsOperatorSymbol(tokens[i])

\* C3: after any sequence of input events the expression is a prefix of
\* something evaluable: with its trailing operators stripped it is empty or
\* tokenizes to an alternating Number, Operator, ..., Number sequence, so
\* that Equals shows Error only when the arithmetic is not finite, never
\* because the expression is structurally invalid.
C3_AlwaysEvaluable ==
  LET safeExpr == StripTrailingOps(expr)
  IN  /\ safeExpr = <<>> \/ Alternating(tokenize(safeExpr))
      /\ (safeExpr # <<>> /\ handleEquals(State).display = ErrorText)
           => Alternating(tokenize(safeExpr))

(* ----------------- C4: no two adjacent operators ----------------------- *)

\* C4: in every reachable state no two adjacent characters of the
\* expression are both operators, except when the second of the two is '-'
\* directly after another operator (the pending unary negative).
C4_NoAdjacentOperators ==
  \A i \in 1..(Len(expr) - 1) :
    (expr[i] \in Operators /\ expr[i + 1] \in Operators) => expr[i + 1] = "-"

\* a pending unary negative after a collapse of a longer run
C4_Witness ==
  /\ expr = <<"1", "/", "-">>
  /\ display = <<"-">>
  /\ event = "-"

\* what handleEquals passes to evaluateExpression lies in InputDomain
EqualsArgumentInDomain ==
  StripTrailingOps(expr) # <<>> => InputDomain(StripTrailingOps(expr))

(* ----------------- C5: one decimal point per number -------------------- *)

\* number of '.' among the characters i..Len(s) of s up to the next operator
RECURSIVE DotsInNumberAt(_, _)
DotsInNumberAt(s, i) ==
  IF i > Len(s) \/ s[i] \in Operators THEN 0
  ELSE (IF s[i] = "." THEN 1 ELSE 0) + DotsInNumberAt(s, i + 1)

\* every maximal operator-free substring of s holds at most one '.'
OneDotPerNumber(s) ==
  \A i \in 1..Len(s) :
    (i = 1 \/ s[i - 1] \in Operators) => DotsInNumberAt(s, i) <= 1

\* the characters of s after its last operator hold a '.'
OpenNumberHasDot(s) ==
  \E i \in 1..Len(s) :
    s[i] = "." /\ \A j \in i..Len(s) : s[j] \notin Operators

\* C5: in every reachable state each number of the expression (each maximal
\* substring between operators) holds at most one '.'; a Decimal event
\* received while the current number already holds '.' and evaluated is
\* false leaves display, expression and evaluated unchanged.
C5_SingleDecimal ==
  /\ [](OneDotPerNumber(expr))
  /\ [][(event' = "." /\ ~evaluated /\ OpenNumberHasDot(expr))
          => (display' = display /\ expr' = expr /\ evaluated' = evaluated)]_vars

\* the last event was a Decimal, yet the expression does not end in '.':
\* the event was ignored
C5_Witness ==
  /\ event = "."
  /\ expr = <<"1", ".", "1">>
  /\ display = <<"1", ".", "1">>
  /\ ~evaluated

(* ----------------- C6: operator-run collapse --------------------------- *)

\* s without its trailing operator characters
RECURSIVE WithoutTrailingOperators(_)
WithoutTrailingOperators(s) ==
  IF Len(s) > 0 /\ s[Len(s)] \in Operators
  THEN WithoutTrailingOperators(SubSeq(s, 1, Len(s) - 1))
  ELSE s

\* the state after the keys of a sequence, pressed from state st
RECURSIVE Run(_, _)
Run(st, keys) ==
  IF Len(keys) = 0 THEN st
  ELSE LET key == keys[1]
           nxt == IF key \in AllDigits THEN handleNumber(st, key)
                  ELSE IF key = "." THEN handleDecimal(st)
                  ELSE IF key \in Operators THEN handleOperator(st, key)
                  ELSE IF key = "=" THEN handleEquals(st)
                  ELSE handleClear(st)
       IN  Run(nxt, SubSeq(keys, 2, Len(keys)))

SameOutcome(s, t) == s.display = t.display /\ s.expr = t.expr

\* no expression has been started: the state Empty
IsEmptyState == expr = <<>> /\ display = <<"0">> /\ ~evaluated

\* the two key sequences of the example, pressed from the current state
FivePlusPlusThree == Run(State, <<"5", "+", "+", "3", "=">>)

FivePlusThree == Run(State, <<"5", "+", "3", "=">>)

\* C6: when the expression ends in an operator and an operator op is
\* entered that is not the unary-minus case (op is not '-', or the trailing
\* character is already '-'), the new expression is the old one with all
\* trailing operators removed, followed by op.  Hence 5 + + 3 = entered in
\* the Empty state reaches the same display and expression as 5 + 3 =, and in general, after a number,
\* the last operator of such a run is the one applied: the run a b leaves
\* the expression that b alone leaves.
C6_OperatorCollapse ==
  /\ [][(/\ event' \in Operators
         /\ ~evaluated
         /\ Len(expr) > 0 /\ expr[Len(expr)] \in Operators
         /\ (event' # "-" \/ expr[Len(expr)] = "-"))
          => expr' = WithoutTrailingOperators(expr) \o <<event'>>]_vars
  /\ [](IsEmptyState => /\ SameOutcome(FivePlusPlusThree, FivePlusThree)
                         /\ FivePlusThree.display = <<"8">>)
  /\ []((~evaluated /\ Len(expr) > 0 /\ expr[Len(expr)] \in AllDigits)
          => \A a \in Operators, b \in Operators \ {"-"} :
               Run(State, <<a, b>>).expr = Run(State, <<b>>).expr)

\* the operator run "/-" has just been collapsed to "+": the expression
\* holds the new operator while the display still shows the old '-'
C6_Witness ==
  /\ event = "+"
  /\ expr = <<"1", "+">>
  /\ display = <<"-">>

(* ----------------- C7: chained computation ----------------------------- *)

RECURSIVE PowerOfTen(_)
PowerOfTen(e) == IF e = 0 THEN 1 ELSE 10 * PowerOfTen(e - 1)

\* index of the character 'e' in s, 0 when there is none
RECURSIVE ExponentIndex(_, _)
ExponentIndex(s, i) ==
  IF i > Len(s) THEN 0
  ELSE IF s[i] = "e" THEN i ELSE ExponentIndex(s, i + 1)

\* the number a rendered result denotes: a decimal numeral, or a decimal
\* mantissa followed by e-N
DisplayedValue(s) ==
  LET ei == ExponentIndex(s, 1)
  IN  IF ei = 0 THEN parseFloat(s)
      ELSE NumDiv(parseFloat(SubSeq(s, 1, ei - 1)),
                  Integer(PowerOfTen(NumeralValue(SubSeq(s, ei + 2, Len(s))))))

\* what the display shows for the value v
Rendering(v) == IF v.k = "num" THEN formatNumber(v) ELSE ErrorText

\* C7: when evaluated is true, an Operator op event sets the expression to
\* the previous display value followed by op and sets evaluated to false;
\* so after an Equals that produced the result r, entering op, a number n
\* and Equals displays the value of r op n (6 = then + 4 = gives 10).
C7_ChainedComputation ==
  (evaluated /\ display # ErrorText) =>
    \A op \in Operators, d \in Digits :
      LET afterOp  == handleOperator(State, op)
          expected == ApplyOperator(op, DisplayedValue(display),
                                    Integer(DigitVal(d)))
      IN  /\ afterOp.expr = display \o <<op>>
          /\ ~afterOp.evaluated
          /\ (/\ Representable(expected)
              /\ Representable(evaluateExpression(display \o <<op, d>>)))
               => Run(State, <<op, d, "=">>).display = Rendering(expected)

(* ----------------- C8: failed evaluation and restart ------------------- *)

\* the evaluation of the expression e, trailing operators dropped, fails
EvaluationFails(e) ==
  evaluateExpression(WithoutTrailingOperators(e)).k \in {"nan", "inf"}

IsErrorState == display = ErrorText /\ expr = <<>> /\ evaluated

\* C8: an Equals event on an expression whose evaluation fails (4 / 0 =)
\* sets display to "Error", expression to empty and evaluated to true; a
\* digit d entered immediately afterwards starts a brand-new expression
\* (expression d, or empty when d is '0'; display d; evaluated false) that
\* holds nothing of the failed expression.
C8_ErrorThenFresh ==
  /\ [][(/\ event' = "="
         /\ WithoutTrailingOperators(expr) # <<>>
         /\ EvaluationFails(expr))
          => (display' = ErrorText /\ expr' = <<>> /\ evaluated')]_vars
  /\ [][(IsErrorState /\ event' \in AllDigits)
          => /\ expr' = (IF event' = "0" THEN <<>> ELSE <<event'>>)
             /\ display' = <<event'>>
             /\ ~evaluated']_vars
  /\ [](IsEmptyState =>
          LET failed == Run(State, <<"4", "/", "0", "=">>)
          IN  /\ failed.display = ErrorText
              /\ failed.expr = <<>>
              /\ failed.evaluated
              /\ \A d \in AllDigits :
                   LET fresh == handleNumber(failed, d)
                   IN  /\ fresh.expr = (IF d = "0" THEN <<>> ELSE <<d>>)
                       /\ fresh.display = <<d>>
                       /\ ~fresh.evaluated)

\* Equals has just failed on a division by zero
C8_Witness ==
  /\ IsErrorState
  /\ event = "="
  /\ lastPressed = "0"
  /\ evaluations = 1

(* ----------------- C9: alphabet of the expression ---------------------- *)

\* C9: in every reachable state every character of the expression is a
\* digit, '.', or one of + - * /; in particular no input after a failed
\* evaluation produces an expression holding characters of the error marker.
C9_ExpressionAlphabet ==
  \A i \in 1..Len(expr) : expr[i] \in AllDigits \cup {"."} \cup Operators

(* ----------------- C10: meaning of evaluated --------------------------- *)

\* C10: in every reachable state evaluated = true implies that display
\* holds the last evaluation result or the error marker: either display is
\* "Error" and the expression is empty, or display equals the expression
\* and is the formatted result of the most recent evaluation.
C10_EvaluatedMeansResult ==
  /\ [](evaluated => \/ display = ErrorText /\ expr = <<>>
                     \/ display = expr /\ display # ErrorText)
  /\ [][evaluated' => event' = "="]_vars
  /\ [][(event' = "=" /\ WithoutTrailingOperators(expr) # <<>>)
          => LET v == evaluateExpression(WithoutTrailingOperators(expr))
             IN  /\ evaluated'
                 /\ IF v.k = "num"
                    THEN display' = formatNumber(v) /\ expr' = display'
                    ELSE display' = ErrorText /\ expr' = <<>>]_vars

\* a negative result is on display right after Equals
C10_Witness ==
  /\ evaluated
  /\ event = "="
  /\ display = <<"-", "1">>
  /\ expr = display

(* ----------------- C11: leading-zero suppression ----------------------- *)

\* a number of s starts at position i
NumberStartsAt(s, i) == s[i] \in AllDigits /\ (i = 1 \/ s[i - 1] \in Operators)

\* some number of s has an integer part "0" followed by another digit
HasLeadingZero(s) ==
  \E i \in 1..(Len(s) - 1) :
    NumberStartsAt(s, i) /\ s[i] = "0" /\ s[i + 1] \in AllDigits

\* a number is being entered and it is exactly "0"
BuildingLoneZero ==
  /\ ~evaluated
  /\ Len(expr) > 0
  /\ expr[Len(expr)] = "0"
  /\ Len(expr) = 1 \/ expr[Len(expr) - 1] \in Operators

\* C11: in every reachable state no number of the expression has an integer
\* part that starts with '0' followed by another digit; a digit d entered
\* while the number being built is exactly "0" replaces that zero with d
\* (in the expression, and the display shows d); and '0' entered in the
\* Empty state leaves the expression empty and the display "0".
C11_LeadingZeroSuppression ==
  /\ [](~HasLeadingZero(expr))
  /\ [][(BuildingLoneZero /\ event' \in AllDigits)
          => /\ expr' = SubSeq(expr, 1, Len(expr) - 1) \o <<event'>>
             /\ display' = <<event'>>]_vars
  /\ [][(IsEmptyState /\ event' = "0")
          => (expr' = <<>> /\ display' = <<"0">>)]_vars

\* '0' has just been entered in the Empty state, before any evaluation
C11_Witness ==
  /\ event = "0"
  /\ lastPressed = "0"
  /\ IsEmptyState
  /\ evaluations = 0

(* ----------------- C12: the last input is recorded --------------------- *)

\* C12: after any digit, decimal, operator or equals event, including the
\* events that are otherwise ignored or change nothing, lastPressed equals
\* the input of that event.
C12_LastInputRecorded ==
  event \in AllDigits \cup {"."} \cup Operators \cup {"="}
    => lastPressed = event

(* ----------------- C13: Clear ------------------------------------------ *)

\* C13: from every reachable state, the error state and a state with a
\* pending unary minus included, a Clear event yields exactly the initial
\* state: display "0", expression "", lastPressed "", evaluated false.
C13_ClearResets ==
  /\ [][event' = "AC"
          => /\ display' = <<"0">>
             /\ expr' = <<>>
             /\ lastPressed' = ""
             /\ ~evaluated']_vars
  /\ [](IsErrorState => ENABLED PressClear)
  /\ []((expr = <<"-">>) => ENABLED PressClear)

\* Clear has just been handled
C13_Witness ==
  /\ event = "AC"
  /\ display = <<"0">>
  /\ expr = <<>>
  /\ lastPressed = ""
  /\ ~evaluated

(* ----------------- C14: one binary operation --------------------------- *)

\* largest operand entered
MaxOperand == 12

\* the keys of a, op, b and Equals
BinaryKeys(a, op, b) == NatToString(a) \o <<op>> \o NatToString(b) \o <<"=">>

\* C14: from the initial state, or right after Clear, entering the digits
\* of a non-negative integer a, one operator op, the digits of a
\* non-negative integer b and Equals leaves display equal to the formatted
\* value of a op b, "Error" when op is / and b is 0, for all a and b up to
\* MaxOperand (0 included) whose division is exact.
C14_BinaryOperation ==
  (State = InitialState) =>
    \A a \in 0..MaxOperand, b \in 0..MaxOperand, op \in Operators :
      (op = "/" /\ b # 0 => a % b = 0)
        => Run(State, BinaryKeys(a, op, b)).display
             = Rendering(ApplyOperator(op, Integer(a), Integer(b)))

(* ----------------- C15: Equals with nothing to evaluate ---------------- *)

\* C15: an Equals event changes nothing when the expression, its trailing
\* operators stripped, is empty (it is empty, or holds only operators such
\* as "-"): display, expression and evaluated keep their values, nothing is
\* evaluated and no error is displayed.
C15_EqualsNoOp ==
  [][(event' = "=" /\ WithoutTrailingOperators(expr) = <<>>)
      => /\ display' = display
         /\ expr' = expr
         /\ evaluated' = evaluated
         /\ evaluations' = evaluations]_vars

\* Equals has just been pressed on the lone unary minus
C15_Witness ==
  /\ event = "="
  /\ expr = <<"-">>
  /\ display = <<"-">>
  /\ lastPressed = "-"
  /\ ~evaluated

(* ----------------- C16: when evaluated is true ------------------------- *)

\* the events other than Equals
OtherEvents == AllDigits \cup {"."} \cup Operators \cup {"AC"}

Transition(st, ev) ==
  IF ev \in AllDigits THEN handleNumber(st, ev)
  ELSE IF ev = "." THEN handleDecimal(st)
  ELSE IF ev \in Operators THEN handleOperator(st, ev)
  ELSE IF ev = "=" THEN handleEquals(st)
  ELSE handleClear(st)

\* C17: every input event is processed against the state left by the
\* previous one: the registered keyboard listener, re-registered only when
\* expr, display or evaluated change, never closes over an expr, display or
\* evaluated that differs from the current state, so every step, of a key
\* or of a button, takes the state to the one the transition function
\* gives for its event: no update is lost or applied in part.
C17_ListenerNeverStale ==
  /\ [](listener = Closure(State))
  /\ [][listener' # listener => Deps(State)' # Deps(State)]_vars
  /\ [][State' = Transition(State, event')]_vars

\* an operator key has just replaced "+-" by "+": only expr changed, the
\* listener was registered again and closes over the new expr
C17_Witness ==
  /\ event = "+"
  /\ expr = <<"1", "+">>
  /\ display = <<"-">>
  /\ listener.expr = <<"1", "+">>
  /\ listener.display = <<"-">>

(* ----------------- C18: the display shows the current number ----------- *)

\* the part of s after its last operator character, all of s without one
AfterLastOperator(s) ==
  SubSeq(s, LastIndexOf(s, Operators, Len(s)) + 1, Len(s))

\* C18: in every reachable state where evaluated is false and the
\* expression ends in a digit or '.', display equals the current number:
\* the part of the expression after its last operator character, the whole
\* expression when it has no operator.
C18_DisplayIsCurrentNumber ==
  (/\ ~evaluated
   /\ Len(expr) > 0
   /\ expr[Len(expr)] \in AllDigits \cup {"."})
    => display = AfterLastOperator(expr)

\* the second number of "1+0.1" is being entered
C18_Witness ==
  /\ ~evaluated
  /\ expr = <<"1", "+", "0", ".", "1">>
  /\ display = <<"0", ".", "1">>
  /\ event = "1"

(* ----------------- C19: the empty expression shows 0 ------------------- *)

\* the branch of handleNumber that sets the expression to "0" is taken by
\* the digit '0' in this state
ZeroBranchOpen == ~evaluated /\ expr = <<>> /\ display # <<"0">>

\* C19: in every reachable state an empty expression with evaluated false
\* is displayed as "0"; hence the digit '0' never takes the branch of
\* handleNumber that sets the expression to "0", and no digit event in a
\* state with an empty expression and evaluated false leaves the
\* expression exactly "0".
C19_EmptyShowsZero ==
  /\ []((expr = <<>> /\ ~evaluated) => display = <<"0">>)
  /\ [][~(ZeroBranchOpen /\ event' = "0")]_vars
  /\ [][(expr = <<>> /\ ~evaluated /\ event' \in AllDigits)
          => expr' # <<"0">>]_vars

\* the operator * has just been ignored in the Empty state
C19_Witness ==
  /\ event = "*"
  /\ lastPressed = "*"
  /\ expr = <<>>
  /\ ~evaluated
  /\ display = <<"0">>

(* ----------------- C20: Equals twice ----------------------------------- *)

\* Equals evaluates the expression e, or returns early, within the model's
\* number range
EqualsInRange(e) ==
  EqualsReturnsEarly(e)
    \/ Representable(evaluateExpression(StripTrailingOps(e)))

\* C20: Equals is idempotent: from every reachable state two consecutive
\* Equals events leave the same display, expression and evaluated as one
\* (a stored result, a negative one included, evaluates to itself; after
\* an error the second Equals changes nothing).
C20_EqualsIdempotent ==
  EqualsInRange(expr) =>
    LET once == handleEquals(State)
    IN  EqualsInRange(once.expr) =>
          LET twice == handleEquals(once)
          IN  /\ twice.display = once.display
              /\ twice.expr = once.expr
              /\ twice.evaluated = once.evaluated

====
